---- MODULE Spec2Model ----
(***************************************************************************)
(* go-easycrud: the REST handlers of easycrud.RegisterAPI and the GORM     *)
(* backed adapter of gormrest.RegisterApi (field mapper, DTO converter,    *)
(* finder/create/mutate/delete callbacks), over one database table.        *)
(*                                                                         *)
(* Go structs are modelled by type descriptors (the sequence of their      *)
(* fields, as reflect sees them) and by values that map every leaf field   *)
(* name to its value; a reflect index path is modelled by the field name.  *)
(* Struct tags are sequences of characters so that strings.Contains is     *)
(* computed, not assumed.                                                  *)
(***************************************************************************)
EXTENDS Integers, Sequences, FiniteSets, TLC

\* Largest auto-increment value the table hands out.
MaxID == 2

\* Latest time the database stamps a write with.
MaxClock == 3

-----------------------------------------------------------------------------
(* Struct tags and strings.Contains *)

NoTag == <<>>
TagKey == <<"k", "e", "y">>
TagChild == <<"c", "h", "i", "l", "d">>
TagDash == <<"-">>
TagPrimaryKey == <<"p", "r", "i", "m", "a", "r", "y", "K", "e", "y">>
TagUniqueIndex == <<"u", "n", "i", "q", "u", "e", "I", "n", "d", "e", "x">>

Contains(s, sub) ==
    \E i \in 0..(Len(s) - Len(sub)) : SubSeq(s, i + 1, i + Len(sub)) = sub

-----------------------------------------------------------------------------
(* Type descriptors *)

Fld(name, type, json, rest, gorm) ==
    [name |-> name, type |-> type, exported |-> TRUE, json |-> json,
     rest |-> rest, gorm |-> gorm, promoted |-> <<>>]

\* gorm.Model, reduced to the columns whose values the ORM manages in a way
\* a request can observe: the primary key, the time of the last update and
\* the soft-delete marker. Times are the ticks of a logical clock; 0 is the
\* zero time.
GormModel ==
    [name |-> "Model", type |-> "gorm.Model", exported |-> TRUE, json |-> NoTag,
     rest |-> NoTag, gorm |-> NoTag,
     promoted |-> << Fld("ID", "uint", NoTag, NoTag, TagPrimaryKey),
                     Fld("UpdatedAt", "time.Time", NoTag, NoTag, NoTag),
                     Fld("DeletedAt", "gorm.DeletedAt", NoTag, NoTag, NoTag) >>]

TestDbItem ==
    << GormModel,
       Fld("Key", "string", NoTag, TagKey, TagUniqueIndex),
       Fld("Children", "[]TestChild", NoTag, TagChild, NoTag),
       Fld("Field1", "int", NoTag, NoTag, NoTag),
       Fld("Field2", "int", NoTag, NoTag, NoTag),
       Fld("Field3", "int", TagDash, NoTag, NoTag) >>

TestDbItemDto ==
    << Fld("Key", "string", NoTag, NoTag, NoTag),
       Fld("Field2", "int", NoTag, NoTag, NoTag),
       Fld("Field3", "int", TagDash, NoTag, NoTag) >>

TestIntKey ==
    << Fld("ID", "int", NoTag, NoTag, TagPrimaryKey),
       Fld("Name", "string", NoTag, NoTag, NoTag) >>

\* The type whose key is the ID of gorm.Model, an unsigned integer.
TestID ==
    << GormModel,
       Fld("Value1", "string", NoTag, NoTag, NoTag),
       Fld("Value2", "string", NoTag, NoTag, NoTag) >>

\* A type with the key tag on two fields.
TwoKeys ==
    << Fld("Code", "string", NoTag, TagKey, NoTag),
       Fld("Alias", "string", NoTag, TagKey, NoTag) >>

\* Types no resource can be registered with.
BadDto ==
    << Fld("Key", "string", NoTag, NoTag, NoTag),
       Fld("Field1", "int", NoTag, NoTag, NoTag),
       Fld("FieldMissing", "string", NoTag, NoTag, NoTag) >>

DtoMissingKey ==
    << Fld("Field1", "int", NoTag, NoTag, NoTag) >>

NoId ==
    << Fld("Value", "string", NoTag, NoTag, NoTag) >>

BaseId ==
    << Fld("ID", "string", NoTag, NoTag, NoTag),
       Fld("Value", "string", NoTag, NoTag, NoTag) >>

NoIdDto ==
    << Fld("Value", "string", NoTag, NoTag, NoTag) >>

StructOf(n) ==
    CASE n = "TestDbItem" -> TestDbItem
      [] n = "TestDbItemDto" -> TestDbItemDto
      [] n = "TestIntKey" -> TestIntKey
      [] n = "TestID" -> TestID
      [] n = "TwoKeys" -> TwoKeys
      [] n = "BadDto" -> BadDto
      [] n = "DtoMissingKey" -> DtoMissingKey
      [] n = "NoId" -> NoId
      [] n = "BaseId" -> BaseId
      [] n = "NoIdDto" -> NoIdDto

\* The fields a value of the type holds: promoted fields of an embedded
\* struct stand in the place of the embedding field.
RECURSIVE LeafSeq(_)
LeafSeq(t) ==
    IF t = <<>> THEN <<>>
    ELSE (IF Head(t).promoted = <<>> THEN <<Head(t)>> ELSE Head(t).promoted)
         \o LeafSeq(Tail(t))

\* The first field of s named n, if any.
Lookup(s, n) ==
    IF \E i \in 1..Len(s) : s[i].name = n
    THEN [ok |-> TRUE,
          field |-> s[CHOOSE i \in 1..Len(s) :
                        s[i].name = n /\ \A j \in 1..(i - 1) : s[j].name # n]]
    ELSE [ok |-> FALSE, field |-> Fld(n, "", NoTag, NoTag, NoTag)]

\* reflect.Type.FieldByName: top-level fields first, then promoted ones.
FieldByName(t, n) == Lookup(t \o LeafSeq(t), n)

\* What reflection and the ORM's schema parser tell of a type, computed once
\* per type: its declaration, its fields, the columns a struct condition
\* can constrain (associations are not columns), the primary key, the
\* unique columns, whether deletes are soft, and the fields json.Marshal
\* writes.
Types == {"TestDbItem", "TestDbItemDto", "TestIntKey", "TestID", "TwoKeys",
          "BadDto", "DtoMissingKey", "NoId", "BaseId", "NoIdDto"}

Range(s) == {s[i] : i \in 1..Len(s)}

Describe(n, struct, fields) ==
    [name |-> n,
     struct |-> struct,
     fields |-> fields,
     names |-> {f.name : f \in fields},
     columns |-> {f.name : f \in {g \in fields :
                    g.type \in {"string", "int", "uint", "time.Time", "gorm.DeletedAt"}}},
     primary |-> {f.name : f \in {g \in fields : Contains(g.gorm, TagPrimaryKey)}},
     unique |-> {f.name : f \in {g \in fields : Contains(g.gorm, TagUniqueIndex)}},
     softDelete |-> \E f \in fields : f.type = "gorm.DeletedAt",
     json |-> {f.name : f \in {g \in fields : g.json # TagDash}}]

Parse(n) == Describe(n, StructOf(n), Range(LeafSeq(StructOf(n))))

Schemas == {Parse(n) : n \in Types}

\* reflect.TypeOf
TypeOf(n) == CHOOSE s \in Schemas : s.name = n

Leaves(t) == t.fields
LeafNames(t) == t.names
LeafOf(t, n) == CHOOSE f \in t.fields : f.name = n

\* The zero value of a Go type.
Zero(type) ==
    CASE type = "string" -> ""
      [] type = "int" -> 0
      [] type = "uint" -> 0
      [] type = "time.Time" -> 0
      [] type = "gorm.DeletedAt" -> FALSE
      [] OTHER -> <<>>

IsZero(t, n, v) == v = Zero(LeafOf(t, n).type)

\* x.n = v on a struct value.
Set(x, n, v) == [m \in DOMAIN x |-> IF m = n THEN v ELSE x[m]]

\* var x T
emptyT(t) == [n \in LeafNames(t) |-> Zero(LeafOf(t, n).type)]

-----------------------------------------------------------------------------
(* strconv *)

Digits == <<"0", "1", "2", "3", "4", "5", "6", "7", "8", "9">>

Itoa(n) == Digits[n + 1]

\* strconv.Atoi on numerals of one digit, with or without a minus sign.
Atoi(s) ==
    IF \E n \in 0..9 : Digits[n + 1] = s
    THEN [err |-> FALSE, k |-> CHOOSE n \in 0..9 : Digits[n + 1] = s]
    ELSE IF \E n \in 0..9 : "-" \o Digits[n + 1] = s
    THEN [err |-> FALSE, k |-> 0 - (CHOOSE n \in 0..9 : "-" \o Digits[n + 1] = s)]
    ELSE [err |-> TRUE, k |-> 0]

\* The bits of an unsigned integer the model keeps (uint64 has 64).
UintBits == 16

-----------------------------------------------------------------------------
(* Field mapper *)

\* buildDtoMap: the links between D and T, the key field on both sides and
\* the child fields; panic is TRUE when registration aborts.
RECURSIVE LinksOf(_, _, _)
LinksOf(tT, dT, i) ==
    IF i > Len(dT) THEN [panic |-> FALSE, links |-> <<>>]
    ELSE LET dF == dT[i]
             rest == LinksOf(tT, dT, i + 1)
         IN  IF dF.exported /\ dF.json # TagDash /\ dF.type # "gorm.Model"
             THEN LET tF == FieldByName(tT, dF.name)
                  IN  IF ~tF.ok \/ tF.field.type # dF.type
                      THEN [panic |-> TRUE, links |-> <<>>]
                      ELSE [panic |-> rest.panic,
                            links |-> <<[dField |-> dF.name, tField |-> tF.field.name]>>
                                      \o rest.links]
             ELSE rest

RECURSIVE TagScan(_, _, _, _)
TagScan(tT, dT, i, acc) ==
    IF i > Len(tT) THEN acc
    ELSE LET tF == tT[i]
             isKey == Contains(tF.rest, TagKey)
             keyField == FieldByName(dT, tF.name)
             a1 == IF tF.exported /\ isKey
                   THEN [acc EXCEPT !.objKey = tF.name, !.keyFound = TRUE,
                                    !.dtoKey = IF keyField.ok THEN tF.name ELSE @,
                                    !.panic = @ \/ ~keyField.ok]
                   ELSE acc
             a2 == IF tF.exported /\ Contains(tF.rest, TagChild)
                   THEN [a1 EXCEPT !.children = Append(@, tF.name)]
                   ELSE a1
         IN  TagScan(tT, dT, i + 1, a2)

\* A dtoMap that takes the key for granted when no field is tagged as key.
dtoMapUnchecked(tT, dT, l, s, idTF, idDF) ==
    [links |-> l.links,
     objKey |-> IF s.keyFound THEN s.objKey ELSE "ID",
     dtoKey |-> IF s.keyFound THEN s.dtoKey ELSE "ID",
     children |-> s.children,
     tT |-> tT,
     dT |-> dT,
     panic |-> l.panic \/ s.panic]

dtoMap(tT, dT, l, s, idTF, idDF) ==
    [links |-> l.links,
     objKey |-> IF s.keyFound THEN s.objKey ELSE "ID",
     dtoKey |-> IF s.keyFound THEN s.dtoKey ELSE "ID",
     children |-> s.children,
     tT |-> tT,
     dT |-> dT,
     panic |-> l.panic \/ s.panic \/ (~s.keyFound /\ (~idTF.ok \/ ~idDF.ok))]

mapTypes(tT, dT) ==
    dtoMap(tT, dT,
           LinksOf(tT.struct, dT.struct, 1),
           TagScan(tT.struct, dT.struct, 1,
                   [objKey |-> "", dtoKey |-> "", keyFound |-> FALSE,
                    children |-> <<>>, panic |-> FALSE]),
           FieldByName(tT.struct, "ID"),
           FieldByName(dT.struct, "ID"))

buildDtoMap(tName, dName) == mapTypes(TypeOf(tName), TypeOf(dName))

-----------------------------------------------------------------------------
(* DTO converter *)

Linked(dMap, side, n) ==
    \E i \in 1..Len(dMap.links) : dMap.links[i][side] = n

\* copyToDto: T -> D.
copyToDto(dMap, in) ==
    IF dMap.tT = dMap.dT THEN in
    ELSE [n \in LeafNames(dMap.dT) |->
            IF Linked(dMap, "dField", n) THEN in[n]
            ELSE Zero(LeafOf(dMap.dT, n).type)]

\* A copyFromDto that also copies the fields D excludes from JSON.
copyFromDtoAll(dMap, out, in) ==
    [n \in DOMAIN out |->
        IF n \in LeafNames(dMap.dT) /\ n \notin {"ID", "UpdatedAt", "DeletedAt"}
        THEN in[n]
        ELSE IF n = dMap.objKey THEN in[dMap.dtoKey]
        ELSE out[n]]

\* A copyFromDto that copies the key field only.
copyFromDtoKeyOnly(dMap, out, in) ==
    [n \in DOMAIN out |-> IF n = dMap.objKey THEN in[dMap.dtoKey] ELSE out[n]]

\* copyFromDto: the key field, then every linked field, of in onto out.
copyFromDto(dMap, out, in) ==
    [n \in DOMAIN out |->
        IF Linked(dMap, "tField", n) THEN in[n]
        ELSE IF n = dMap.objKey THEN in[dMap.dtoKey]
        ELSE out[n]]

\* emptyWithKey: the empty T with only the key field set from the path key.
emptyWithKey(dMap, key) ==
    LET tT == dMap.tT
        kind == LeafOf(tT, dMap.objKey).type
        k == Atoi(key)
    IN  CASE kind = "int" ->
               IF k.err THEN [err |-> TRUE, item |-> emptyT(tT)]
               ELSE [err |-> FALSE, item |-> Set(emptyT(tT), dMap.objKey, k.k)]
          [] kind = "uint" ->
               IF k.err THEN [err |-> TRUE, item |-> emptyT(tT)]
               ELSE [err |-> FALSE,
                     item |-> Set(emptyT(tT), dMap.objKey, k.k % (2 ^ UintBits))]
          [] OTHER -> [err |-> FALSE, item |-> Set(emptyT(tT), dMap.objKey, key)]

-----------------------------------------------------------------------------
(* The GORM collaborator. A database db is one table of rows of the        *)
(* storage type, the table's auto-increment sequence, the time of the      *)
(* last write that was stamped, and whether it currently refuses writes    *)
(* (a write to a failing database returns an error and changes nothing).   *)
(* A row is a value of the storage type; has-many children are kept with   *)
(* their parent row.                                                       *)

PrimaryField(tT) == CHOOSE n \in tT.primary : TRUE

UniqueFields(tT) == tT.unique

SoftDelete(tT) == tT.softDelete

Columns(tT) == tT.columns

Live(tT, row) == ~SoftDelete(tT) \/ ~row["DeletedAt"]

\* db.Find(&dest, &cond): the live rows equal to cond on each of its
\* non-zero columns.
gormFind(tT, tbl, cond) ==
    {r \in tbl : /\ Live(tT, r)
                 /\ \A n \in Columns(tT) : IsZero(tT, n, cond[n]) \/ r[n] = cond[n]}

\* Children already stored stay; the children of the saved value are
\* inserted with the owner's primary key as foreign key, except those whose
\* own primary key is taken by a stored child (ON CONFLICT DO NOTHING).
RECURSIVE MergeChildren(_, _, _, _)
MergeChildren(old, new, taken, owner) ==
    IF new = <<>> THEN old
    ELSE IF Head(new).ID \in taken
         THEN MergeChildren(old, Tail(new), taken, owner)
         ELSE MergeChildren(Append(old, [ID |-> Head(new).ID, TestDbItemID |-> owner]),
                            Tail(new), taken \cup {Head(new).ID}, owner)

Stored(tT, tbl, old, e) ==
    IF "Children" \in DOMAIN e
    THEN Set(e, "Children",
             MergeChildren(old, e["Children"],
                           {c.ID : c \in UNION {Range(r["Children"]) : r \in tbl}},
                           e[PrimaryField(tT)]))
    ELSE e

OldChildren(r) == IF "Children" \in DOMAIN r THEN r["Children"] ELSE <<>>

UniqueClash(tT, others, e) ==
    \E r \in others : \E u \in UniqueFields(tT) : r[u] = e[u]

Max(a, b) == IF a >= b THEN a ELSE b

\* The time-tracking column: an update always stamps it, an insert stamps
\* it when the value carries none.
Stamp(tT, e, t, always) ==
    IF "UpdatedAt" \in tT.names /\ (always \/ e["UpdatedAt"] = 0)
    THEN Set(e, "UpdatedAt", t)
    ELSE e

Tick(tT, db) == IF "UpdatedAt" \in tT.names THEN db.now + 1 ELSE db.now

\* The row an INSERT of e writes: the primary key is drawn from the
\* sequence when it is zero.
NewRow(tT, db, e, pk) ==
    Stamp(tT,
          IF IsZero(tT, pk, e[pk]) /\ LeafOf(tT, pk).type \in {"int", "uint"}
          THEN Set(e, pk, db.seq + 1) ELSE e,
          Tick(tT, db), FALSE)

Insert(tT, db, e, pk, row) ==
    IF (\E r \in db.table : r[pk] = row[pk]) \/ UniqueClash(tT, db.table, row)
    THEN [err |-> TRUE, db |-> db, item |-> e]
    ELSE [err |-> FALSE,
          db |-> [table |-> db.table \cup {Stored(tT, db.table, <<>>, row)},
                  seq |-> IF LeafOf(tT, pk).type \in {"int", "uint"}
                          THEN Max(db.seq, row[pk]) ELSE db.seq,
                  now |-> Tick(tT, db),
                  failing |-> db.failing],
          item |-> row]

\* db.Create(&e)
gormCreate(tT, db, e) ==
    Insert(tT, db, e, PrimaryField(tT), NewRow(tT, db, e, PrimaryField(tT)))

\* UPDATE of every column of the row(s) target to the value row.
Update(tT, db, target, row) ==
    IF UniqueClash(tT, db.table \ target, row)
    THEN [err |-> TRUE, db |-> db, item |-> row]
    ELSE [err |-> FALSE,
          db |-> [table |-> (db.table \ target)
                              \cup {Stored(tT, db.table, OldChildren(CHOOSE r \in target : TRUE), row)},
                  seq |-> db.seq,
                  now |-> Tick(tT, db),
                  failing |-> db.failing],
          item |-> row]

\* db.Save(&e): INSERT when the primary key is zero; otherwise UPDATE of
\* every column by primary key (live rows only) and, when that touches no
\* row, INSERT ... ON CONFLICT (primary key) DO UPDATE.
SaveBy(tT, db, e, hit, same) ==
    IF hit # {} THEN Update(tT, db, hit, Stamp(tT, e, Tick(tT, db), TRUE))
    ELSE IF same # {} THEN Update(tT, db, same, Stamp(tT, e, Tick(tT, db), TRUE))
    ELSE gormCreate(tT, db, e)

gormSave(tT, db, e) ==
    IF db.failing THEN [err |-> TRUE, db |-> db, item |-> e]
    ELSE IF IsZero(tT, PrimaryField(tT), e[PrimaryField(tT)])
    THEN gormCreate(tT, db, e)
    ELSE SaveBy(tT, db, e,
                {r \in db.table : r[PrimaryField(tT)] = e[PrimaryField(tT)] /\ Live(tT, r)},
                {r \in db.table : r[PrimaryField(tT)] = e[PrimaryField(tT)]})

\* db.Delete(&item): by primary key; a soft delete when the type has DeletedAt.
Remove(tT, db, hit) ==
    [err |-> FALSE,
     db |-> [db EXCEPT !.table =
                IF SoftDelete(tT)
                THEN (db.table \ hit) \cup {[r EXCEPT !["DeletedAt"] = TRUE] : r \in hit}
                ELSE db.table \ hit]]

gormDelete(tT, db, item) ==
    IF db.failing \/ IsZero(tT, PrimaryField(tT), item[PrimaryField(tT)])
    THEN [err |-> TRUE, db |-> db]
    ELSE Remove(tT, db, {r \in db.table :
                           r[PrimaryField(tT)] = item[PrimaryField(tT)] /\ Live(tT, r)})

\* Rows in primary key order.
RECURSIVE SortRows(_, _)
SortRows(tT, rows) ==
    IF rows = {} THEN <<>>
    ELSE LET pk == PrimaryField(tT)
             lo == CHOOSE r \in rows : \A q \in rows : r[pk] <= q[pk]
         IN  <<lo>> \o SortRows(tT, rows \ {lo})

-----------------------------------------------------------------------------
(* The storage adapter (grest): the callbacks RegisterApi hands to the     *)
(* REST layer. Each takes the database it runs against.                    *)

\* The outcomes of Limit(1).Find with the keyed template tmpl as mask. The
\* query has no ORDER BY, so any matching row may be the one returned.
Limit1(tT, tbl, tmpl) ==
    IF tmpl.err \/ gormFind(tT, tbl, tmpl.item) = {}
    THEN {[item |-> emptyT(tT), ok |-> FALSE]}
    ELSE {[item |-> r, ok |-> TRUE] : r \in gormFind(tT, tbl, tmpl.item)}

\* finder
finder(dMap, tbl, key) == Limit1(dMap.tT, tbl, emptyWithKey(dMap, key))

\* findAll
findAll(dMap, tbl) ==
    SortRows(dMap.tT, gormFind(dMap.tT, tbl, emptyT(dMap.tT)))

\* A search that pays no attention to the filter.
searchAll(dMap, tbl, filter) == findAll(dMap, tbl)

\* search: the DTO, copied onto an empty T, is the mask of a Find.
search(dMap, tbl, filter) ==
    SortRows(dMap.tT, gormFind(dMap.tT, tbl, copyFromDto(dMap, emptyT(dMap.tT), filter)))

\* mutate: copy the DTO onto orig and Save it.
mutate(dMap, db, orig, edit) ==
    gormSave(dMap.tT, db, copyFromDto(dMap, orig, edit))

\* The key of the DTO as a string.
keyString(dMap, edit) ==
    IF LeafOf(dMap.dT, dMap.dtoKey).type \in {"int", "uint"}
    THEN Itoa(edit[dMap.dtoKey])
    ELSE edit[dMap.dtoKey]

\* A create without the check for an empty key.
createFromUnchecked(dMap, db, edit, key, ret) ==
    IF ret.err
    THEN [err |-> TRUE, db |-> db, item |-> emptyT(dMap.tT)]
    ELSE mutate(dMap, db, ret.item, edit)

createFrom(dMap, db, edit, key, ret) ==
    IF key = "" \/ ret.err
    THEN [err |-> TRUE, db |-> db, item |-> emptyT(dMap.tT)]
    ELSE mutate(dMap, db, ret.item, edit)

\* create: the keyed template, then mutate.
create(dMap, db, edit) ==
    createFrom(dMap, db, edit, keyString(dMap, edit),
               emptyWithKey(dMap, keyString(dMap, edit)))

\* delete
delete(dMap, db, item) == gormDelete(dMap.tT, db, item)

\* A getter that stops after the first element.
childrenFirst(c, item) == IF item[c] = <<>> THEN <<>> ELSE <<Head(item[c])>>

\* children(c): the elements of the child field.
children(c, item) == item[c]

-----------------------------------------------------------------------------
(* fiber: status codes, bodies, JSON *)

StatusOK == 200
StatusBadRequest == 400
StatusUnauthorized == 401
StatusNotFound == 404
StatusMethodNotAllowed == 405
StatusInternalServerError == 500

NoBody == [kind |-> "empty", val |-> <<>>]

\* c.SendStatus
SendStatus(code) == [code |-> code, body |-> NoBody]

\* c.SendString
SendString(text) == [code |-> StatusOK, body |-> [kind |-> "text", val |-> text]]

\* The fields encoding/json reads and writes: all but the ones tagged "-".
JsonNames(t) == t.json

\* json.Marshal of a struct value.
JsonObject(t, v) == [n \in JsonNames(t) |-> v[n]]

\* A Go slice: nil until the first append.
NilSlice == [nil |-> TRUE, elems |-> <<>>]
GoAppend(s, x) == [nil |-> FALSE, elems |-> Append(s.elems, x)]

\* c.JSON of a struct value and of a slice (a nil slice marshals to null).
JSONStruct(t, v) ==
    [code |-> StatusOK, body |-> [kind |-> "object", val |-> JsonObject(t, v)]]

JSONSlice(s) ==
    [code |-> StatusOK,
     body |-> IF s.nil THEN [kind |-> "null", val |-> <<>>]
              ELSE [kind |-> "array", val |-> s.elems]]

\* A BodyParser that reports no error and leaves the D it cannot fill at zero.
BodyParserLenient(dT, body) ==
    [err |-> FALSE,
     val |-> [n \in LeafNames(dT) |->
                IF ~body.bad /\ n \in JsonNames(dT) /\ n \in DOMAIN body.obj
                THEN body.obj[n]
                ELSE Zero(LeafOf(dT, n).type)]]

\* c.BodyParser into a D: a request body is malformed or a JSON object;
\* keys of fields tagged "-" are ignored, absent fields stay zero.
BodyParser(dT, body) ==
    [err |-> body.bad,
     val |-> [n \in LeafNames(dT) |->
                IF ~body.bad /\ n \in JsonNames(dT) /\ n \in DOMAIN body.obj
                THEN body.obj[n]
                ELSE Zero(LeafOf(dT, n).type)]]

-----------------------------------------------------------------------------
(* Registration *)

ToLower(name) ==
    CASE name = "Children" -> "children"
      [] OTHER -> name

\* dtoMap of every pair of types a resource is registered with.
TypePairs ==
    { <<"TestDbItem", "TestDbItemDto">>, <<"TestDbItem", "TestDbItem">>,
      <<"TestIntKey", "TestIntKey">> }

\* Pairs of types whose registration is attempted and aborts.
BadPairs ==
    { <<"TestDbItem", "BadDto">>, <<"TestDbItem", "DtoMissingKey">>,
      <<"TestIntKey", "BaseId">>, <<"NoId", "NoId">>, <<"BaseId", "NoIdDto">> }

dMaps == {buildDtoMap(p[1], p[2]) : p \in TypePairs \cup BadPairs}

dMapOf(tName, dName) ==
    CHOOSE m \in dMaps : m.tT.name = tName /\ m.dT.name = dName

\* An Api whose callbacks are all left in place, whatever the options say.
ApiFull(dMap, options) ==
    [dMap |-> dMap,
     Search |-> TRUE,
     Mutate |-> TRUE,
     Create |-> TRUE,
     Delete |-> TRUE,
     SubEntities |-> [i \in 1..Len(dMap.children) |->
                        [SubPath |-> ToLower(dMap.children[i]),
                         Get |-> dMap.children[i]]],
     Validator |-> options.Validator]

\* gormrest.RegisterApi: the Api handed to RegisterAPI. A callback is TRUE
\* when it is set and FALSE when it is nil.
Api(dMap, options) ==
    [dMap |-> dMap,
     Search |-> TRUE,
     Mutate |-> options.Mutate,
     Create |-> options.Create,
     Delete |-> options.Delete,
     SubEntities |-> [i \in 1..Len(dMap.children) |->
                        [SubPath |-> ToLower(dMap.children[i]),
                         Get |-> dMap.children[i]]],
     Validator |-> options.Validator]

RegisterApi(tName, options) == Api(dMapOf(tName, options.D), options)

\* easycrud.RegisterAPI: the routes installed, each with its handler.
RegisterAPI(api) ==
    {[method |-> "GET", path |-> "/", sub |-> "", handler |-> "getAll"]}
    \cup (IF api.Mutate
          THEN {[method |-> "POST", path |-> "/", sub |-> "", handler |-> "createOne"]}
          ELSE {})
    \cup {[method |-> "GET", path |-> "/:id/sub", sub |-> api.SubEntities[i].SubPath,
           handler |-> "getSubEntity"] : i \in 1..Len(api.SubEntities)}
    \cup {[method |-> "GET", path |-> "/:id", sub |-> "", handler |-> "getOne"]}
    \cup (IF api.Mutate
          THEN {[method |-> "PUT", path |-> "/:id", sub |-> "", handler |-> "mutateOne"]}
          ELSE {})
    \cup (IF api.Delete
          THEN {[method |-> "DELETE", path |-> "/:id", sub |-> "", handler |-> "deleteOne"]}
          ELSE {})

\* The filter route, installed when a Search callback is provided.
FilterRoutes(api) ==
    IF api.Search
    THEN {[method |-> "POST", path |-> "/filter", sub |-> "", handler |-> "filter"]}
    ELSE {}

\* A registration that installs the routes whatever buildDtoMap found.
InstalledAnyway(api) == RegisterAPI(api) \cup FilterRoutes(api)

\* The routes of a resource: buildDtoMap panics inside RegisterApi before
\* RegisterAPI is called, so a resource whose mapping is invalid has none.
Installed(api) ==
    IF api.dMap.panic THEN {} ELSE RegisterAPI(api) \cup FilterRoutes(api)

\* fiber's router: the handler of the matching route; 405 when the path is
\* routed for other methods only, 404 when it is not routed at all.
Route(api, method, path, sub) ==
    LET match == {r \in Installed(api) : r.path = path /\ r.sub = sub}
        mine == {r \in match : r.method = method}
    IN  IF mine # {} THEN (CHOOSE r \in mine : TRUE).handler
        ELSE IF match # {} THEN "405"
        ELSE "404"

\* api.Validator != nil && !api.Validator(c, action, item...)
\* A check that takes a missing validator for a denial.
DeniedWhenNil(api, permit) == ~api.Validator \/ ~permit

\* The validator is set and denies; a nil validator allows.
Denied(api, permit) == api.Validator /\ ~permit

\* api.Dto, bound to copyToDto by RegisterApi.
Dto(api, item) == copyToDto(api.dMap, item)

-----------------------------------------------------------------------------
(* Request handlers: the outcomes of one request against database db. An   *)
(* outcome is the response, the database the handler leaves, the callbacks *)
(* it invoked, in order, and whether it panicked.                          *)

Out(r, db, cs) == [resp |-> r, db |-> db, calls |-> cs, panic |-> FALSE]

\* A call through a nil func value: the handler panics, no response is sent.
NilCall(db, cs) == [resp |-> SendStatus(0), db |-> db, calls |-> cs, panic |-> TRUE]

\* The call of the validator, when there is one.
Validated(api) == IF api.Validator THEN <<"Validator">> ELSE <<>>

\* The calls made up to and including the permission check.
Checked(api) == <<"Find">> \o Validated(api)

\* A not-found answer that does not consult the validator.
notFoundLeaks(api, permit) == SendStatus(StatusNotFound)

\* The item was not found: 401 when the validator denies, else 404.
notFound(api, permit) ==
    IF Denied(api, permit) THEN SendStatus(StatusUnauthorized)
    ELSE SendStatus(StatusNotFound)

RECURSIVE DtoAll(_, _, _)
DtoAll(api, rows, all) ==
    IF rows = <<>> THEN all
    ELSE DtoAll(api, Tail(rows),
                GoAppend(all, JsonObject(api.dMap.dT, Dto(api, Head(rows)))))

getAll(api, db, permit) ==
    IF Denied(api, permit)
    THEN {Out(SendStatus(StatusUnauthorized), db, <<"Validator">>)}
    ELSE {Out(JSONSlice(DtoAll(api, findAll(api.dMap, db.table), NilSlice)), db,
              Validated(api) \o <<"FindAll">>)}

getOne(api, db, id, permit) ==
    {IF ~f.ok
     THEN Out(notFound(api, permit), db, Checked(api))
     ELSE IF Denied(api, permit)
     THEN Out(SendStatus(StatusUnauthorized), db, Checked(api))
     ELSE Out(JSONStruct(api.dMap.dT, Dto(api, f.item)), db, Checked(api) \o <<"Dto">>)
       : f \in finder(api.dMap, db.table, id)}

\* POST /filter: authorize, decode the filter, search, respond with the
\* array of the DTOs of the matching entities.
filter(api, db, body, permit) ==
    {IF Denied(api, permit)
     THEN Out(SendStatus(StatusUnauthorized), db, <<"Validator">>)
     ELSE IF mask.err
     THEN Out(SendStatus(StatusBadRequest), db, Validated(api))
     ELSE Out([code |-> StatusOK,
               body |-> [kind |-> "array",
                         val |-> DtoAll(api, search(api.dMap, db.table, mask.val),
                                        NilSlice).elems]],
              db, Validated(api) \o <<"Search">>)
       : mask \in {BodyParser(api.dMap.dT, body)}}

\* The response once api.Create or api.Mutate has returned r.
saved(api, db, r, cs) ==
    IF r.err
    THEN Out(SendStatus(StatusInternalServerError), db, cs)
    ELSE Out(JSONStruct(api.dMap.dT, Dto(api, r.item)), r.db, cs \o <<"Dto">>)

createOne(api, db, body, permit) ==
    {IF amended.err
     THEN Out(SendStatus(StatusBadRequest), db, <<>>)
     ELSE IF Denied(api, permit)
     THEN Out(SendStatus(StatusUnauthorized), db, <<"Validator">>)
     ELSE IF ~api.Create
     THEN NilCall(db, Validated(api) \o <<"Create">>)
     ELSE saved(api, db, create(api.dMap, db, amended.val),
                Validated(api) \o <<"Create">>)
       : amended \in {BodyParser(api.dMap.dT, body)}}

\* A mutateOne that runs Mutate before it asks the validator.
mutateOneEager(api, db, id, body, permit) ==
    {IF amended.err
     THEN Out(SendStatus(StatusBadRequest), db, <<>>)
     ELSE IF ~f.ok
     THEN Out(notFound(api, permit), db, Checked(api))
     ELSE IF Denied(api, permit)
     THEN Out(SendStatus(StatusUnauthorized),
              mutate(api.dMap, db, f.item, amended.val).db,
              <<"Find", "Mutate">> \o Validated(api))
     ELSE saved(api, db, mutate(api.dMap, db, f.item, amended.val),
                Checked(api) \o <<"Mutate">>)
       : amended \in {BodyParser(api.dMap.dT, body)},
         f \in finder(api.dMap, db.table, id)}

mutateOne(api, db, id, body, permit) ==
    {IF amended.err
     THEN Out(SendStatus(StatusBadRequest), db, <<>>)
     ELSE IF ~f.ok
     THEN Out(notFound(api, permit), db, Checked(api))
     ELSE IF Denied(api, permit)
     THEN Out(SendStatus(StatusUnauthorized), db, Checked(api))
     ELSE saved(api, db, mutate(api.dMap, db, f.item, amended.val),
                Checked(api) \o <<"Mutate">>)
       : amended \in {BodyParser(api.dMap.dT, body)},
         f \in finder(api.dMap, db.table, id)}

\* A response to DELETE that does not look at the error api.Delete returned.
deletedWhatever(db, r, cs) == Out(SendString("deleted"), r.db, cs)

\* The response once api.Delete has returned r.
deleted(db, r, cs) ==
    IF r.err
    THEN Out(SendStatus(StatusInternalServerError), db, cs)
    ELSE Out(SendString("deleted"), r.db, cs)

\* A deleteOne that deletes before it asks the validator.
deleteOneEager(api, db, id, permit) ==
    {IF ~f.ok
     THEN Out(notFound(api, permit), db, Checked(api))
     ELSE IF Denied(api, permit)
     THEN Out(SendStatus(StatusUnauthorized), delete(api.dMap, db, f.item).db,
              <<"Find", "Delete">> \o Validated(api))
     ELSE deleted(db, delete(api.dMap, db, f.item), Checked(api) \o <<"Delete">>)
       : f \in finder(api.dMap, db.table, id)}

deleteOne(api, db, id, permit) ==
    {IF ~f.ok
     THEN Out(notFound(api, permit), db, Checked(api))
     ELSE IF Denied(api, permit)
     THEN Out(SendStatus(StatusUnauthorized), db, Checked(api))
     ELSE deleted(db, delete(api.dMap, db, f.item), Checked(api) \o <<"Delete">>)
       : f \in finder(api.dMap, db.table, id)}

RECURSIVE AppendAll(_, _)
AppendAll(res, elems) ==
    IF elems = <<>> THEN res ELSE AppendAll(GoAppend(res, Head(elems)), Tail(elems))

getSubEntity(api, getter, db, id, permit) ==
    {IF ~f.ok
     THEN Out(notFound(api, permit), db, Checked(api))
     ELSE IF Denied(api, permit)
     THEN Out(SendStatus(StatusUnauthorized), db, Checked(api))
     ELSE Out(JSONSlice(AppendAll(NilSlice, children(getter, f.item))), db,
              Checked(api) \o <<"Get">>)
       : f \in finder(api.dMap, db.table, id)}

-----------------------------------------------------------------------------
(* The server: one table, any number of resources registered over it, one  *)
(* request handled at a time; the response is in flight until the client   *)
(* has received it.                                                        *)

VARIABLES
    storage, \* name of the storage type of the table
    table,   \* the rows of the table
    seq,     \* the table's auto-increment sequence
    now,     \* the time of the last write the database stamped
    req,     \* the request being answered, NoReq when none
    resp,    \* the response to req
    calls,   \* the callbacks the handler of req invoked, in order
    up,      \* FALSE once a handler has panicked
    failing, \* TRUE while the database refuses writes
    conv     \* a conversion between storage and transport values under study

vars == <<storage, table, seq, now, req, resp, calls, up, failing, conv>>

\* The database the handlers run against.
DB == [table |-> table, seq |-> seq, now |-> now, failing |-> failing]

\* Options[T, D] of a registered resource; D names the transport type and
\* Validator tells whether a validator is set.
Resources(t) ==
    [D : {p[2] : p \in {q \in TypePairs \cup BadPairs : q[1] = t}},
     Delete : BOOLEAN, Mutate : BOOLEAN, Create : BOOLEAN, Validator : BOOLEAN]

\* What the validator of the resource may answer to a request.
Permits(res) == IF res.Validator THEN BOOLEAN ELSE {TRUE}

KeyNames == {"id1", "id2"}

PathIds(t) ==
    IF t = "TestIntKey" THEN {Itoa(n) : n \in 0..MaxID} \cup {"one"}
    ELSE KeyNames

\* The JSON objects a client sends for transport type d.
Objects(d) ==
    CASE d = "TestDbItemDto" ->
           {[Key |-> k, Field2 |-> 22, Field3 |-> 33] : k \in KeyNames \cup {""}}
      [] d = "TestDbItem" ->
           {[Key |-> k, Field1 |-> 11, Field2 |-> 22, Field3 |-> 33] :
              k \in KeyNames \cup {""}}
           \cup {[Key |-> "id1", Field1 |-> 11, Field2 |-> 22, Field3 |-> 33,
                  Children |-> <<[ID |-> "ch9", TestDbItemID |-> 0]>>]}
      [] d = "TestIntKey" ->
           {[ID |-> n, Name |-> "two"] : n \in 0..MaxID}
      [] d = "BadDto" -> {[Key |-> "id1", Field1 |-> 11, FieldMissing |-> "x"]}
      [] d = "DtoMissingKey" -> {[Field1 |-> 11]}
      [] d = "BaseId" -> {[ID |-> "id1", Value |-> "x"]}
      [] OTHER -> {[Value |-> "x"]}

\* The JSON objects a client sends as filter for transport type d.
Filters(d) ==
    CASE d = "TestDbItemDto" ->
           {<<>>, [Key |-> "id1"], [Field2 |-> 20], [Key |-> "id1", Field2 |-> 20],
            [Key |-> "id2", Field2 |-> 22]}
      [] d = "TestDbItem" ->
           {<<>>, [Key |-> "id1"], [Key |-> "id1", Field1 |-> 10],
            [Field1 |-> 10, Field2 |-> 22], [ID |-> MaxID],
            [Children |-> <<[ID |-> "ch1.1", TestDbItemID |-> 1]>>]}
      [] d = "TestIntKey" ->
           {<<>>, [Name |-> "one"], [ID |-> 1], [ID |-> 1, Name |-> "one"],
            [ID |-> MaxID, Name |-> "two"]}
      [] OTHER -> {<<>>}

Malformed == [bad |-> TRUE, obj |-> <<>>]

Bodies(d) == {Malformed} \cup {[bad |-> FALSE, obj |-> o] : o \in Objects(d)}

NoRes == [D |-> "", Delete |-> FALSE, Mutate |-> FALSE, Create |-> FALSE,
          Validator |-> FALSE]

NoReq == [method |-> "", path |-> "", sub |-> "", id |-> "", body |-> Malformed,
          res |-> NoRes, permit |-> TRUE]

NoResp == SendStatus(0)

Request(method, path, sub, id, body, res, permit) ==
    [method |-> method, path |-> path, sub |-> sub, id |-> id, body |-> body,
     res |-> res, permit |-> permit]

\* The rows the table holds when the server starts.
InitRows(t) ==
    IF t = "TestIntKey" THEN {[ID |-> 1, Name |-> "one"]}
    ELSE IF t \in {"NoId", "BaseId"} THEN {}
    ELSE {[ID |-> 1, UpdatedAt |-> 1, DeletedAt |-> FALSE, Key |-> "id1",
           Children |-> <<[ID |-> "ch1.1", TestDbItemID |-> 1],
                          [ID |-> "ch1.2", TestDbItemID |-> 1]>>,
           Field1 |-> 10, Field2 |-> 20, Field3 |-> 30]}

\* No conversion under study.
NoConv == [phase |-> "", tName |-> "", dName |-> "", e |-> <<>>, d |-> <<>>,
           mid |-> <<>>, out |-> <<>>, key |-> ""]

\* The server has started.
Started ==
    /\ storage \in {"TestDbItem", "TestIntKey", "NoId", "BaseId"}
    /\ table = InitRows(storage)
    /\ seq = 1
    /\ now = 1
    /\ req = NoReq
    /\ resp = NoResp
    /\ calls = <<>>
    /\ up = TRUE
    /\ failing = FALSE

Init == Started /\ conv = NoConv

Idle == up /\ req.method = ""

\* The handler's outcome o becomes the state; r is the request it answered.
Deliver(r, o) ==
    /\ o.db.seq <= MaxID
    /\ o.db.now <= MaxClock
    /\ req' = r
    /\ resp' = o.resp
    /\ table' = o.db.table
    /\ seq' = o.db.seq
    /\ now' = o.db.now
    /\ calls' = o.calls
    /\ up' = ~o.panic
    /\ UNCHANGED <<storage, failing, conv>>

GetAll ==
    /\ Idle
    /\ \E res \in Resources(storage) : \E permit \in Permits(res) :
         \E api \in {RegisterApi(storage, res)} :
             /\ Route(api, "GET", "/", "") = "getAll"
             /\ \E o \in getAll(api, DB, permit) :
                  Deliver(Request("GET", "/", "", "", Malformed, res, permit), o)

GetOne ==
    /\ Idle
    /\ \E res \in Resources(storage) : \E permit \in Permits(res) : \E id \in PathIds(storage) :
         \E api \in {RegisterApi(storage, res)} :
             /\ Route(api, "GET", "/:id", "") = "getOne"
             /\ \E o \in getOne(api, DB, id, permit) :
                  Deliver(Request("GET", "/:id", "", id, Malformed, res, permit), o)

CreateOne ==
    /\ Idle
    /\ \E res \in Resources(storage) : \E permit \in Permits(res) :
       \E body \in Bodies(res.D) :
         \E api \in {RegisterApi(storage, res)} :
             /\ Route(api, "POST", "/", "") = "createOne"
             /\ \E o \in createOne(api, DB, body, permit) :
                  Deliver(Request("POST", "/", "", "", body, res, permit), o)

MutateOne ==
    /\ Idle
    /\ \E res \in Resources(storage) : \E permit \in Permits(res) :
       \E id \in PathIds(storage) : \E body \in Bodies(res.D) :
         \E api \in {RegisterApi(storage, res)} :
             /\ Route(api, "PUT", "/:id", "") = "mutateOne"
             /\ \E o \in mutateOne(api, DB, id, body, permit) :
                  Deliver(Request("PUT", "/:id", "", id, body, res, permit), o)

DeleteOne ==
    /\ Idle
    /\ \E res \in Resources(storage) : \E permit \in Permits(res) : \E id \in PathIds(storage) :
         \E api \in {RegisterApi(storage, res)} :
             /\ Route(api, "DELETE", "/:id", "") = "deleteOne"
             /\ \E o \in deleteOne(api, DB, id, permit) :
                  Deliver(Request("DELETE", "/:id", "", id, Malformed, res, permit), o)

GetSubEntity ==
    /\ Idle
    /\ \E res \in Resources(storage) : \E permit \in Permits(res) : \E id \in PathIds(storage) :
         \E api \in {RegisterApi(storage, res)} :
             \E i \in 1..Len(api.SubEntities) :
               /\ Route(api, "GET", "/:id/sub", api.SubEntities[i].SubPath)
                     = "getSubEntity"
               /\ \E o \in getSubEntity(api, api.SubEntities[i].Get, DB, id, permit) :
                    Deliver(Request("GET", "/:id/sub", api.SubEntities[i].SubPath,
                                    id, Malformed, res, permit), o)

Filter ==
    /\ Idle
    /\ \E res \in Resources(storage) : \E permit \in Permits(res) :
       \E body \in {Malformed} \cup {[bad |-> FALSE, obj |-> o] : o \in Filters(res.D)} :
         \E api \in {RegisterApi(storage, res)} :
             /\ Route(api, "POST", "/filter", "") = "filter"
             /\ \E o \in filter(api, DB, body, permit) :
                  Deliver(Request("POST", "/filter", "", "", body, res, permit), o)

\* The methods and paths clients send.
Targets ==
    { <<"GET", "/", "">>, <<"POST", "/", "">>, <<"POST", "/filter", "">>,
      <<"GET", "/:id", "">>,
      <<"PUT", "/:id", "">>, <<"DELETE", "/:id", "">>,
      <<"GET", "/:id/sub", "children">> }

\* A request no route serves: the router answers it and no handler runs.
Unrouted ==
    /\ Idle
    /\ \E res \in Resources(storage) : \E permit \in Permits(res) : \E t \in Targets :
       \E id \in (IF t[2] \in {"/", "/filter"} THEN {""} ELSE PathIds(storage)) :
       \E body \in (IF t[1] \in {"POST", "PUT"} THEN Bodies(res.D) ELSE {Malformed}) :
       \E h \in {Route(RegisterApi(storage, res), t[1], t[2], t[3])} :
             /\ h \in {"404", "405"}
             /\ Deliver(Request(t[1], t[2], t[3], id, body, res, permit),
                        Out(SendStatus(IF h = "405" THEN StatusMethodNotAllowed
                                       ELSE StatusNotFound), DB, <<>>))

\* The client has received the response.
Respond ==
    /\ up
    /\ req.method # ""
    /\ req' = NoReq
    /\ resp' = NoResp
    /\ calls' = <<>>
    /\ UNCHANGED <<storage, table, seq, now, up, failing, conv>>

\* The database starts or stops refusing writes.
Outage ==
    /\ Idle
    /\ failing' = ~failing
    /\ UNCHANGED <<storage, table, seq, now, req, resp, calls, up, conv>>

Next ==
    \/ GetAll
    \/ GetOne
    \/ CreateOne
    \/ MutateOne
    \/ DeleteOne
    \/ GetSubEntity
    \/ Filter
    \/ Unrouted
    \/ Respond
    \/ Outage

Spec == Init /\ [][Next]_vars
-----------------------------------------------------------------------------
(* The DTO converter on its own: copyFromDto of a transport value d onto   *)
(* an entity e, then copyToDto of the result, for every registered pair of *)
(* types.                                                                   *)

Child(n) == [ID |-> n, TestDbItemID |-> 1]

\* Entities of storage type t.
Entities(t) ==
    IF t = "TestIntKey"
    THEN {[ID |-> n, Name |-> s] : n \in 0..MaxID, s \in {"one", "two"}}
    ELSE {[ID |-> 1, UpdatedAt |-> 1, DeletedAt |-> FALSE, Key |-> k, Children |-> c,
           Field1 |-> f1, Field2 |-> f2, Field3 |-> f3] :
            k \in KeyNames, c \in {<<>>, <<Child("ch1.1")>>},
            f1 \in {0, 10}, f2 \in {0, 20}, f3 \in {0, 30}}

\* Transport values of type d, as a handler holds them in memory.
Values(d) ==
    CASE d = "TestDbItemDto" ->
           {[Key |-> k, Field2 |-> f2, Field3 |-> f3] :
              k \in KeyNames, f2 \in {0, 22}, f3 \in {0, 33}}
      [] d = "TestDbItem" ->
           {[ID |-> n, UpdatedAt |-> 0, DeletedAt |-> FALSE, Key |-> k,
             Children |-> <<>>, Field1 |-> f1, Field2 |-> f2, Field3 |-> f3] :
              n \in {0, MaxID}, k \in KeyNames,
              f1 \in {0, 11}, f2 \in {0, 22}, f3 \in {0, 33}}
      [] d = "TestIntKey" ->
           {[ID |-> n, Name |-> s] : n \in 0..MaxID, s \in {"one", "two"}}

InitConv ==
    /\ Started
    /\ \E p \in TypePairs : \E e \in Entities(p[1]) : \E d \in Values(p[2]) :
         conv = [phase |-> "in", tName |-> p[1], dName |-> p[2], e |-> e, d |-> d,
                 mid |-> e, out |-> d, key |-> ""]

\* mid := copyFromDto(e, d)
FromTransport ==
    /\ conv.phase = "in"
    /\ conv' = [conv EXCEPT !.phase = "stored",
                            !.mid = copyFromDto(dMapOf(conv.tName, conv.dName),
                                                conv.e, conv.d)]
    /\ UNCHANGED <<storage, table, seq, now, req, resp, calls, up, failing>>

\* out := copyToDto(mid)
ToTransport ==
    /\ conv.phase = "stored"
    /\ conv' = [conv EXCEPT !.phase = "out",
                            !.out = copyToDto(dMapOf(conv.tName, conv.dName), conv.mid)]
    /\ UNCHANGED <<storage, table, seq, now, req, resp, calls, up, failing>>

NextConv ==
    \/ FromTransport
    \/ ToTransport

SpecConv == InitConv /\ [][NextConv]_vars

-----------------------------------------------------------------------------
(* The keyed template on its own: emptyWithKey applied to a key string, for *)
(* each kind of key field.                                                  *)

\* The key strings a path can carry.
KeyStrings == {"0", "1", "2", "9", "-0", "-1", "-5", "one", "id1", ""}

InitKey ==
    /\ Started
    /\ \E p \in TypePairs \cup {<<"TestID", "TestID">>, <<"TwoKeys", "TwoKeys">>} :
       \E k \in KeyStrings :
         conv = [NoConv EXCEPT !.phase = "key", !.tName = p[1], !.dName = p[2],
                               !.key = k]

\* out := emptyWithKey(key)
BuildKeyedTemplate ==
    /\ conv.phase = "key"
    /\ conv' = [conv EXCEPT !.phase = "keyed",
                            !.out = emptyWithKey(buildDtoMap(conv.tName, conv.dName),
                                                 conv.key)]
    /\ UNCHANGED <<storage, table, seq, now, req, resp, calls, up, failing>>

SpecKey == InitKey /\ [][BuildKeyedTemplate]_vars

-----------------------------------------------------------------------------
(* Requests and their handlers, as the properties below speak of them      *)

InFlight(r) == r.method # ""

\* The Api of the resource request r is sent to.
ApiOf(r) == RegisterApi(storage, r.res)

\* The handler the router picks for r ("404"/"405" when there is none).
Handler(r) == Route(ApiOf(r), r.method, r.path, r.sub)

\* The registration of r's resource did not abort.
Registered(r) == ~ApiOf(r).dMap.panic

Handled(r) == InFlight(r) /\ Handler(r) \notin {"404", "405"}

\* The validator of r's resource is set and denies r.
Refused(r) == r.res.Validator /\ ~r.permit

\* GET /:id, DELETE /:id, GET /:id/<child>, PUT /:id with a well-formed body.
SingleItem(r) ==
    /\ r.path \in {"/:id", "/:id/sub"}
    /\ r.method = "PUT" => ~r.body.bad

\* The getter of the sub entity route r names.
GetterOf(api, r) ==
    api.SubEntities[CHOOSE i \in 1..Len(api.SubEntities) :
                       api.SubEntities[i].SubPath = r.sub].Get

\* The outcomes of handler h of api for request r against database db.
Handle(api, h, r, db) ==
    CASE h = "getAll" -> getAll(api, db, r.permit)
      [] h = "getOne" -> getOne(api, db, r.id, r.permit)
      [] h = "createOne" -> createOne(api, db, r.body, r.permit)
      [] h = "mutateOne" -> mutateOne(api, db, r.id, r.body, r.permit)
      [] h = "deleteOne" -> deleteOne(api, db, r.id, r.permit)
      [] h = "getSubEntity" -> getSubEntity(api, GetterOf(api, r), db, r.id, r.permit)
      [] h = "filter" -> filter(api, db, r.body, r.permit)

Outcomes(r, db) == Handle(ApiOf(r), Handler(r), r, db)

\* The key of a stored row as a path parameter spells it.
KeyText(dMap, row) ==
    IF LeafOf(dMap.tT, dMap.objKey).type \in {"int", "uint"}
    THEN Itoa(row[dMap.objKey])
    ELSE row[dMap.objKey]

\* The live rows of tbl whose key is id.
Addressed(dMap, tbl, id) ==
    {row \in tbl : Live(dMap.tT, row) /\ KeyText(dMap, row) = id}

\* The verb of r was disabled when r's resource was registered.
VerbDisabled(r) ==
    \/ r.method = "POST" /\ r.path = "/" /\ ~r.res.Create
    \/ r.method = "PUT" /\ r.path = "/:id" /\ ~r.res.Mutate
    \/ r.method = "DELETE" /\ r.path = "/:id" /\ ~r.res.Delete

Called(cs, name) == \E i \in 1..Len(cs) : cs[i] = name

-----------------------------------------------------------------------------
(* Properties *)

\* C1: when the validator is set and denies, a single-item request (GET,
\* DELETE, GET of a child collection, PUT with a well-formed body) is
\* answered 401, and it is answered the same by every store that holds only
\* some of the rows of this one, the addressed row among them or not.
C1_DeniedHidesExistence ==
    (Handled(req) /\ SingleItem(req) /\ Refused(req))
        => /\ resp = SendStatus(StatusUnauthorized)
           /\ \A rows \in SUBSET table :
                \A o \in Outcomes(req, [table |-> rows, seq |-> seq, now |-> now,
                                           failing |-> failing]) :
                    o.resp = resp

\* C1 witness: a denied request for an item the store does not hold has
\* been answered 401.
C1_DeniedMissingAnswered ==
    /\ Handled(req) /\ SingleItem(req) /\ Refused(req)
    /\ Addressed(ApiOf(req).dMap, table, req.id) = {}
    /\ \A f \in finder(ApiOf(req).dMap, table, req.id) : ~f.ok
    /\ resp = SendStatus(StatusUnauthorized)

\* C2 (as stated): a request is answered 405 by the router exactly when its
\* verb was disabled at registration (POST / for Create, PUT /:id for
\* Mutate, DELETE /:id for Delete); no handler runs for a disabled verb.
C2_DisabledVerbRemoved ==
    (InFlight(req) /\ Registered(req) /\ req.method \in {"POST", "PUT", "DELETE"})
        => /\ VerbDisabled(req) <=> (up /\ resp = SendStatus(StatusMethodNotAllowed))
           /\ VerbDisabled(req) => ~Handled(req)

\* C3 (as stated): a POST / or PUT /:id that reaches its handler and that
\* the validator denies is answered 401, whatever its body; 400 goes to
\* authorized requests only.
C3_AuthorizeBeforeDecode ==
    (Handled(req) /\ req.method \in {"POST", "PUT"} /\ Refused(req))
        => resp = SendStatus(StatusUnauthorized)

\* C4 (as stated): a GET, PUT or DELETE of /:id, or a GET of /:id/<child>,
\* that is not denied and addresses no stored item is answered 404, calls
\* neither Mutate nor Delete, and leaves the table as it was.
C4_MissingIs404 ==
    [][(/\ req.method = ""
        /\ Handled(req')
        /\ req'.path \in {"/:id", "/:id/sub"}
        /\ ~Refused(req')
        /\ Addressed(ApiOf(req').dMap, table, req'.id) = {})
         => /\ resp' = SendStatus(StatusNotFound)
            /\ ~Called(calls', "Mutate")
            /\ ~Called(calls', "Delete")
            /\ table' = table]_vars

\* C5: no request of any method to a resource registered with Delete,
\* Mutate and Create all false changes the stored rows.
C5_ReadOnly ==
    [][(/\ req.method = ""
        /\ InFlight(req')
        /\ ~req'.res.Delete /\ ~req'.res.Mutate /\ ~req'.res.Create)
         => table' = table]_vars

\* C5 witness: a write verb sent to a read-only resource has been refused.
C5_WriteRefused ==
    /\ req.method \in {"POST", "PUT", "DELETE"}
    /\ ~req.res.Delete /\ ~req.res.Mutate /\ ~req.res.Create
    /\ req.method \in {"POST", "PUT"} => ~req.body.bad
    /\ req.permit
    /\ resp = SendStatus(StatusMethodNotAllowed)

\* The fields of T that D lacks or excludes from JSON.
StorageOnly(dMap) ==
    {n \in LeafNames(dMap.tT) : n \notin LeafNames(dMap.dT) \/ n \notin JsonNames(dMap.dT)}

\* The row stored under the primary key of e has e's value on every field
\* of fields.
Kept(tT, tbl, e, fields) ==
    \E row \in tbl : /\ row[PrimaryField(tT)] = e[PrimaryField(tT)]
                     /\ \A n \in fields : row[n] = e[n]

\* A PUT of id located an entity of before and stored it in after with the
\* fields of fields as they were.
PutKeeps(dMap, before, after, id, fields) ==
    \E f \in finder(dMap, before, id) : f.ok /\ Kept(dMap.tT, after, f.item, fields)

\* The handler of a PUT /:id has just answered 200.
PutSucceeds == req.method = "" /\ req'.method = "PUT" /\ resp'.code = StatusOK

\* C6 (amended): a successful PUT leaves every storage-only field of the
\* located entity (a field D lacks or excludes from JSON) as it was in the
\* stored entity, except the update time, which the save sets anew.
C6_PutKeepsStorageOnly ==
    [][PutSucceeds
         => PutKeeps(ApiOf(req').dMap, table, table', req'.id,
                     StorageOnly(ApiOf(req').dMap) \ {"UpdatedAt"})]_vars

\* C6 (as stated): a successful PUT leaves every storage-only field of the
\* located entity as it was in the stored entity.
C6_PutKeepsEveryStorageOnly ==
    [][PutSucceeds
         => PutKeeps(ApiOf(req').dMap, table, table', req'.id,
                     StorageOnly(ApiOf(req').dMap))]_vars

\* C6 witness: a PUT through the DTO has written Field2 and left Field1 and
\* the JSON-excluded Field3 of the stored row alone, at a later update time.
C6_PutStored ==
    /\ req.method = "PUT" /\ req.res.D = "TestDbItemDto" /\ resp.code = StatusOK
    /\ \E row \in table : /\ row["Key"] = req.body.obj["Key"]
                          /\ row["Field2"] = 22
                          /\ row["Field1"] = 10
                          /\ row["Field3"] = 30
                          /\ row["UpdatedAt"] > 1

-----------------------------------------------------------------------------
(* Interleaved requests. Handlers run in their own goroutines and          *)
(* mutateOne's Find and Mutate are separate statements against the         *)
(* database, outside any transaction: other requests can be served between *)
(* them. One PUT is followed through its two steps; conv holds what its    *)
(* handler has in hand: the located item (e), the decoded body (d) and the *)
(* request (out).                                                          *)

\* mutateOne up to the validator: the body is decoded, the item is found and
\* the validator allows.
PutFind ==
    /\ Idle
    /\ conv.phase = ""
    /\ \E res \in Resources(storage) : \E id \in PathIds(storage) :
       \E body \in Bodies(res.D) : \E api \in {RegisterApi(storage, res)} :
         /\ Route(api, "PUT", "/:id", "") = "mutateOne"
         /\ ~BodyParser(api.dMap.dT, body).err
         /\ \E f \in finder(api.dMap, table, id) :
              /\ f.ok
              /\ conv' = [phase |-> "found", tName |-> storage, dName |-> res.D,
                          e |-> f.item, d |-> BodyParser(api.dMap.dT, body).val,
                          mid |-> <<>>,
                          out |-> Request("PUT", "/:id", "", id, body, res, TRUE),
                          key |-> id]
    /\ UNCHANGED <<storage, table, seq, now, req, resp, calls, up, failing>>

\* The rest of mutateOne: api.Mutate on the item found earlier, then the
\* response.
PutMutate ==
    /\ Idle
    /\ conv.phase = "found"
    /\ \E api \in {RegisterApi(storage, conv.out.res)} :
       \E o \in {saved(api, DB, mutate(api.dMap, DB, conv.e, conv.d),
                       Checked(api) \o <<"Mutate">>)} :
         /\ o.db.seq <= MaxID
         /\ o.db.now <= MaxClock
         /\ req' = conv.out
         /\ resp' = o.resp
         /\ table' = o.db.table
         /\ seq' = o.db.seq
         /\ now' = o.db.now
         /\ calls' = o.calls
         /\ up' = TRUE
    /\ conv' = [conv EXCEPT !.phase = "done"]
    /\ UNCHANGED <<storage, failing>>

\* The requests served while the PUT is between its two steps.
Between == conv.phase = "found" /\ (MutateOne \/ DeleteOne)

SpecRace == Init /\ [][PutFind \/ PutMutate \/ Between \/ Respond]_vars

\* A conversion has run both ways.
Converted == conv.phase = "out"

\* The fields of D that copyFromDto carries over: the linked ones and the key.
Carried(dMap) ==
    {n \in LeafNames(dMap.dT) : Linked(dMap, "dField", n) \/ n = dMap.dtoKey}

\* C7 (amended): copyToDto(copyFromDto(e, d)) has d's value on the key field
\* and on every linked field of D; on the other fields of D (excluded from
\* JSON, or gorm.Model's) it has the zero value when D differs from T and
\* e's value when D is T.
C7_RoundTripLinked ==
    Converted
        => /\ \A n \in Carried(dMapOf(conv.tName, conv.dName)) : conv.out[n] = conv.d[n]
           /\ \A n \in DOMAIN conv.d \ Carried(dMapOf(conv.tName, conv.dName)) :
                conv.out[n] = IF conv.tName = conv.dName THEN conv.e[n]
                              ELSE Zero(LeafOf(TypeOf(conv.dName), n).type)

\* C7 (as stated): copyToDto(copyFromDto(e, d)) has d's value on every
\* field of D.
C7_RoundTripAll ==
    Converted => \A n \in DOMAIN conv.d : conv.out[n] = conv.d[n]

\* C7 witness: a DTO has gone to an entity and back; Field2 came back with
\* the DTO's value, not the entity's, and the JSON-excluded Field3 came
\* back zero.
C7_WentRoundAndBack ==
    /\ Converted /\ conv.dName = "TestDbItemDto"
    /\ conv.d["Field2"] = 22 /\ conv.e["Field2"] = 20 /\ conv.out["Field2"] = 22
    /\ conv.d["Field3"] = 33 /\ conv.out["Field3"] = 0

\* The handler of a POST / that is not denied and has a well-formed body
\* has just run api.Create.
CreateRuns ==
    /\ req.method = "" /\ req'.method = "POST" /\ req'.path = "/" /\ Handled(req')
    /\ req'.res.Create /\ ~Refused(req') /\ ~req'.body.bad

\* The key of the transport value POSTed, as the client sent it.
PostedKey(r) == r.body.obj[ApiOf(r).dMap.dtoKey]

\* The key POSTed is a string and empty.
EmptyKey(r) ==
    /\ LeafOf(ApiOf(r).dMap.dT, ApiOf(r).dMap.dtoKey).type = "string"
    /\ PostedKey(r) = ""

\* The key POSTed is an integer and zero.
ZeroKey(r) ==
    /\ LeafOf(ApiOf(r).dMap.dT, ApiOf(r).dMap.dtoKey).type \in {"int", "uint"}
    /\ PostedKey(r) = 0

\* C8 (amended): a create with an empty string key is answered 500 and
\* stores nothing; a create with a zero integer key is not refused: unless
\* the database fails the write, it is answered 200 and stores a row under
\* the next key of the sequence.
C8_EmptyKeyRefused ==
    [][CreateRuns
         => /\ EmptyKey(req')
                => resp' = SendStatus(StatusInternalServerError) /\ table' = table
            /\ (ZeroKey(req') /\ ~failing)
                => /\ resp'.code = StatusOK
                   /\ \E row \in table' \ table :
                        row[ApiOf(req').dMap.objKey] = seq + 1]_vars

\* C8 (as stated): a create with an empty string key or a zero integer key
\* is answered 500 and stores nothing.
C8_EmptyOrZeroKeyRefused ==
    [][(CreateRuns /\ (EmptyKey(req') \/ ZeroKey(req')))
         => resp' = SendStatus(StatusInternalServerError) /\ table' = table]_vars

\* C8 witness: a create with an empty string key has been answered 500.
C8_EmptyKeyAnswered ==
    /\ Handled(req) /\ req.method = "POST" /\ req.path = "/"
    /\ req.res.Create /\ ~Refused(req)
    /\ ~req.body.bad
    /\ EmptyKey(req)
    /\ resp = SendStatus(StatusInternalServerError)
    /\ Called(calls, "Create")

\* C9 (as stated): a create whose key is the key of a stored entity is
\* answered 500 and changes no stored row, whatever the kind of the key.
C9_CreateNeverOverwrites ==
    [][(/\ CreateRuns
        /\ \E row \in table : row[ApiOf(req').dMap.objKey] = PostedKey(req'))
         => resp' = SendStatus(StatusInternalServerError) /\ table' = table]_vars

\* C10 (as stated): GET / over a table with no live row is answered 200
\* with an empty array.
C10_EmptyStoreIsEmptyArray ==
    (/\ Handled(req) /\ req.method = "GET" /\ req.path = "/" /\ ~Refused(req)
     /\ \A row \in table : ~Live(TypeOf(storage), row))
        => /\ resp.code = StatusOK
           /\ resp.body = [kind |-> "array", val |-> <<>>]

\* The callback that executes request r, and how often cs records it.
CallbackOf(r) ==
    CASE r.method = "POST" -> "Create"
      [] r.method = "PUT" -> "Mutate"
      [] r.method = "DELETE" -> "Delete"
      [] OTHER -> ""

Count(cs, name) == Cardinality({i \in 1..Len(cs) : cs[i] = name})

\* What BodyParser makes of the body of r.
Parsed(r) == BodyParser(ApiOf(r).dMap.dT, r.body).val

\* Request r reaches its Create, Mutate or Delete callback against database
\* db and the callback returns an error.
CallbackFails(r, db) ==
    /\ Handled(r) /\ ~Refused(r)
    /\ CASE r.method = "POST" /\ r.path = "/" ->
              /\ r.res.Create /\ ~r.body.bad
              /\ create(ApiOf(r).dMap, db, Parsed(r)).err
         [] r.method = "PUT" ->
              /\ ~r.body.bad
              /\ \E f \in finder(ApiOf(r).dMap, db.table, r.id) : f.ok
              /\ \A f \in finder(ApiOf(r).dMap, db.table, r.id) :
                    mutate(ApiOf(r).dMap, db, f.item, Parsed(r)).err
         [] r.method = "DELETE" ->
              /\ \E f \in finder(ApiOf(r).dMap, db.table, r.id) : f.ok
              /\ \A f \in finder(ApiOf(r).dMap, db.table, r.id) :
                    delete(ApiOf(r).dMap, db, f.item).err
         [] OTHER -> FALSE

\* C11: when the Create, Mutate or Delete callback of a request fails, the
\* request is answered 500, the callback was invoked exactly once, the
\* database is as it was and the server goes on serving.
C11_CallbackFailureIsTerminal ==
    [][(req.method = "" /\ CallbackFails(req', DB))
         => /\ resp' = SendStatus(StatusInternalServerError)
            /\ Count(calls', CallbackOf(req')) = 1
            /\ up'
            /\ <<table, seq, now>>' = <<table, seq, now>>]_vars

\* C11 witness: a DELETE found its item, the Delete callback failed and the
\* request has been answered 500.
C11_DeleteFailed ==
    /\ req.method = "DELETE" /\ Handled(req)
    /\ Called(calls, "Delete")
    /\ resp = SendStatus(StatusInternalServerError)
    /\ up

\* C12: a request answered 400, 401, 404 or 500 leaves the database (rows,
\* sequence, clock) as it was and the server serving, so every later
\* request is answered as if it had not been sent.
C12_ErrorsChangeNothing ==
    [][(/\ req.method = "" /\ InFlight(req')
        /\ resp'.code \in {StatusBadRequest, StatusUnauthorized, StatusNotFound,
                           StatusInternalServerError})
         => /\ <<table, seq, now, failing>>' = <<table, seq, now, failing>>
            /\ up'
            /\ resp'.body = NoBody]_vars

\* C12 witness: a PUT that moved an entity onto the key of another one was
\* refused by the working database and answered 500.
C12_ClashAnswered ==
    /\ storage = "TestDbItem" /\ req.method = "PUT" /\ ~req.body.bad /\ ~failing
    /\ Called(calls, "Mutate")
    /\ resp = SendStatus(StatusInternalServerError)
    /\ \E row \in table : row["Key"] = req.body.obj["Key"] /\ row["Key"] # req.id

\* C13: a PUT /:id, POST / or POST /filter that is not denied and whose
\* body cannot be parsed is answered 400, and neither Create nor Mutate nor
\* Search is invoked for it.
C13_MalformedIs400 ==
    (Handled(req) /\ req.method \in {"PUT", "POST"} /\ ~Refused(req) /\ req.body.bad)
        => /\ resp = SendStatus(StatusBadRequest)
           /\ ~Called(calls, "Create")
           /\ ~Called(calls, "Mutate")
           /\ ~Called(calls, "Search")

\* C13 witness: a PUT the validator allowed, with a malformed body, has
\* been answered 400.
C13_MalformedPutAnswered ==
    /\ Handled(req) /\ req.method = "PUT"
    /\ req.res.Validator /\ req.permit /\ req.body.bad
    /\ resp = SendStatus(StatusBadRequest)

\* The key of r's resource is an integer and the id of r is not a number.
NotNumeric(r) ==
    /\ LeafOf(ApiOf(r).dMap.tT, ApiOf(r).dMap.objKey).type \in {"int", "uint"}
    /\ Atoi(r.id).err

\* C14 (as stated): on a resource with an integer key, a GET /:id or
\* PUT /:id that is not denied and whose id is not numeric is answered 404,
\* Mutate is not invoked and the table is left as it was.
C14_NotNumericIs404 ==
    [][(/\ req.method = "" /\ Handled(req')
        /\ req'.method \in {"GET", "PUT"} /\ req'.path = "/:id"
        /\ ~Refused(req')
        /\ NotNumeric(req'))
         => /\ resp' = SendStatus(StatusNotFound)
            /\ ~Called(calls', "Mutate")
            /\ table' = table]_vars

\* The requests for the item r addresses that a client allowed by the
\* validator can send to r's resource and that reach a handler.
Revisits(r) ==
    {q \in {[r EXCEPT !.method = m, !.body = b, !.permit = TRUE] :
              m \in {"GET", "PUT", "DELETE"},
              b \in Bodies(r.res.D)} : Handled(q)}

\* C15 (as stated): once a DELETE /:id has been answered 200 "deleted", no
\* live entity has that key, every entity with another key is as it was,
\* and a GET, PUT or DELETE of that id is answered 404.
C15_DeletedStaysGone ==
    [][(req.method = "" /\ req'.method = "DELETE" /\ resp' = SendString("deleted"))
         => /\ Addressed(ApiOf(req').dMap, table', req'.id) = {}
            /\ \A row \in table :
                 KeyText(ApiOf(req').dMap, row) # req'.id => row \in table'
            /\ \A q \in Revisits(req') : \A o \in Outcomes(q, DB') :
                 o.resp = SendStatus(StatusNotFound)]_vars

\* The handler of a POST / or of a PUT /:id has just answered 200.
WriteSucceeds ==
    /\ req.method = "" /\ req'.method \in {"POST", "PUT"}
    /\ req'.path \in {"/", "/:id"} /\ resp'.code = StatusOK

\* The GET of the key the write r was sent for: the path key of a PUT, the
\* key in the body of a POST.
ReadBack(r) ==
    [r EXCEPT !.method = "GET", !.path = "/:id", !.permit = TRUE,
              !.id = IF r.method = "PUT" THEN r.id
                     ELSE keyString(ApiOf(r).dMap,
                                    BodyParser(ApiOf(r).dMap.dT, r.body).val)]

\* The mapped fields the body of r carries: the key and the linked fields.
Sent(r) ==
    {n \in DOMAIN r.body.obj :
       /\ n \in JsonNames(ApiOf(r).dMap.dT)
       /\ n = ApiOf(r).dMap.dtoKey \/ Linked(ApiOf(r).dMap, "dField", n)}

\* C16 (as stated): after a POST / or PUT /:id answered 200 the response is
\* the transport form of the entity as stored, a following GET of that key
\* is answered 200 with the mapped fields that were sent, and an entity a
\* POST created has every unmapped storage field at its zero value.
C16_ReadYourWrites ==
    [][WriteSucceeds
         => /\ \E row \in table' :
                 /\ Live(ApiOf(req').dMap.tT, row)
                 /\ resp' = JSONStruct(ApiOf(req').dMap.dT, Dto(ApiOf(req'), row))
            /\ \A o \in Outcomes(ReadBack(req'), DB') :
                 /\ o.resp.code = StatusOK
                 /\ \A n \in Sent(req') : o.resp.body.val[n] = req'.body.obj[n]
            /\ req'.method = "POST"
                 => \A row \in table' \ table :
                      \A n \in StorageOnly(ApiOf(req').dMap) :
                         IsZero(ApiOf(req').dMap.tT, n, row[n])]_vars

\* The exported fields of the transport type of r's resource that JSON does
\* not exclude and that have no field of the same name and type on the
\* storage type.
Unmatched(r) ==
    {f \in Range(StructOf(r.res.D)) :
       /\ f.exported /\ f.json # TagDash
       /\ \A g \in Range(StructOf(storage)) \cup Leaves(TypeOf(storage)) :
            g.name # f.name \/ g.type # f.type}

KeyFields(t) ==
    IF \E f \in Range(StructOf(t)) : Contains(f.rest, TagKey)
    THEN {f.name : f \in {g \in Range(StructOf(t)) : Contains(g.rest, TagKey)}}
    ELSE {"ID"} \cap LeafNames(TypeOf(t))

\* C18: the key of a resource is the storage field tagged as key, else the
\* field named ID, on both types; registration fails when the storage type
\* has neither and when the transport type has no field of that name.
C18_KeyIdentified ==
    InFlight(req)
      => /\ KeyFields(storage) = {} => ApiOf(req).dMap.panic
         /\ KeyFields(storage) \cap LeafNames(TypeOf(req.res.D)) = {}
              => ApiOf(req).dMap.panic
         /\ Registered(req)
              => /\ KeyFields(storage) = {ApiOf(req).dMap.objKey}
                 /\ ApiOf(req).dMap.dtoKey = ApiOf(req).dMap.objKey

\* C18 witness: a request was sent to a resource of TestDbItem, whose key is
\* the tagged field Key although the type has an ID, with a transport type
\* that has no field Key, and found no route.
C18_KeyMissingOnDto ==
    /\ req.method = "GET" /\ req.path = "/" /\ req.res.D = "DtoMissingKey"
    /\ KeyFields(storage) = {"Key"} /\ "ID" \in LeafNames(TypeOf(storage))
    /\ ApiOf(req).dMap.panic
    /\ Unmatched(req) = {}
    /\ resp = SendStatus(StatusNotFound)

\* C19: a request to a resource registered without a validator is never
\* answered 401, whatever the table holds and whatever preceded it.
C19_NoValidatorNever401 ==
    (InFlight(req) /\ ~req.res.Validator) => resp.code # StatusUnauthorized

\* C19 witness: without a validator, after earlier writes, a GET of a key no
\* entity has was answered 404 once the validator check was passed over.
C19_MissingWithoutValidator ==
    /\ req.method = "GET" /\ req.path = "/:id" /\ ~req.res.Validator
    /\ Addressed(ApiOf(req).dMap, table, req.id) = {}
    /\ table # InitRows(storage)
    /\ calls = <<"Find">>
    /\ resp = SendStatus(StatusNotFound)

\* The filter fields the search looks at: the key and the linked fields of
\* the transport type that are columns of the storage type.
MaskFields(dMap) ==
    {n \in JsonNames(dMap.dT) :
       /\ n = dMap.dtoKey \/ Linked(dMap, "dField", n)
       /\ n \in Columns(dMap.tT)}

\* The transport forms of the live rows of tbl that equal the filter f on
\* every field of fields where f is not zero.
Matching(api, tbl, f, fields) ==
    {JsonObject(api.dMap.dT, Dto(api, row)) :
       row \in {r \in tbl :
                  /\ Live(api.dMap.tT, r)
                  /\ \A n \in fields :
                       IsZero(api.dMap.dT, n, f[n]) \/ r[n] = f[n]}}

\* C20 (amended): POST /filter answers 200 with exactly the transport forms
\* of the stored entities that equal the filter on each of its non-zero
\* fields that is the key or a mapped field and a column of the storage type
\* (fields of gorm.Model that are not the key, and child collections, are
\* not looked at); a filter with all of these at zero returns what GET /
\* returns; a filter that adds non-zero fields to another returns a subset.
C20_FilterByMappedColumns ==
    [][(req.method = "" /\ req'.method = "POST" /\ req'.path = "/filter"
          /\ resp'.code = StatusOK)
         => /\ Range(resp'.body.val)
                 = Matching(ApiOf(req'), table,
                            BodyParser(ApiOf(req').dMap.dT, req'.body).val,
                            MaskFields(ApiOf(req').dMap))
            /\ Len(resp'.body.val) = Cardinality(Range(resp'.body.val))
            /\ (\A n \in MaskFields(ApiOf(req').dMap) :
                   IsZero(ApiOf(req').dMap.dT, n,
                          BodyParser(ApiOf(req').dMap.dT, req'.body).val[n]))
                 => \A o \in getAll(ApiOf(req'), DB, TRUE) :
                      Range(o.resp.body.val) = Range(resp'.body.val)
            /\ \A g \in Filters(req'.res.D) :
                 (\A n \in DOMAIN req'.body.obj :
                     n \in DOMAIN g /\ g[n] = req'.body.obj[n])
                   => \A o \in filter(ApiOf(req'), DB, [bad |-> FALSE, obj |-> g], TRUE) :
                        Range(o.resp.body.val) \subseteq Range(resp'.body.val)]_vars

\* C20 (as stated): POST /filter answers 200 with exactly the transport
\* forms of the stored entities that equal the filter on every one of its
\* non-zero fields.
C20_FilterByEveryField ==
    [][(req.method = "" /\ req'.method = "POST" /\ req'.path = "/filter"
          /\ resp'.code = StatusOK)
         => Range(resp'.body.val)
              = Matching(ApiOf(req'), table,
                         BodyParser(ApiOf(req').dMap.dT, req'.body).val,
                         JsonNames(ApiOf(req').dMap.dT))]_vars

\* C20 witness: with two entities stored, a filter on Key and Field2 was
\* answered with the one entity that has both values.
C20_FilteredOne ==
    /\ req.method = "POST" /\ req.path = "/filter" /\ resp.code = StatusOK
    /\ req.res.D = "TestDbItemDto"
    /\ req.body.obj = [Key |-> "id1", Field2 |-> 20]
    /\ Cardinality({r \in table : Live(TypeOf(storage), r)}) = 2
    /\ Len(resp.body.val) = 1
    /\ resp.body.val[1]["Key"] = "id1"

\* C21: GET /:id/<child> is answered 401 when the validator denies; else 404
\* when no entity has the key; else 200 with the elements of that child
\* field of the entity, in the order of the field. Nothing stored changes.
C21_ChildrenListed ==
    [][(req.method = "" /\ InFlight(req') /\ Handler(req') = "getSubEntity")
         => /\ table' = table
            /\ IF Refused(req') THEN resp' = SendStatus(StatusUnauthorized)
               ELSE IF Addressed(ApiOf(req').dMap, table, req'.id) = {}
               THEN resp' = SendStatus(StatusNotFound)
               ELSE /\ resp'.code = StatusOK
                    /\ \E row \in Addressed(ApiOf(req').dMap, table, req'.id) :
                         resp'.body.val = row[GetterOf(ApiOf(req'), req')]]_vars

\* C21 witness: the two children of the entity id1 were listed in order.
C21_TwoChildrenListed ==
    /\ req.method = "GET" /\ req.path = "/:id/sub" /\ req.sub = "children"
    /\ req.id = "id1" /\ resp.code = StatusOK
    /\ Len(resp.body.val) = 2
    /\ resp.body.val[1].ID = "ch1.1" /\ resp.body.val[2].ID = "ch1.2"

\* C22 (as stated): no field tagged as child collection is linked, and a
\* PUT or POST leaves the child collection of every stored entity as it was.
C22_ChildrenReadOnly ==
    [][(req.method = "" /\ InFlight(req') /\ Registered(req'))
         => /\ \A c \in Range(ApiOf(req').dMap.children) :
                 ~Linked(ApiOf(req').dMap, "tField", c)
            /\ req'.method \in {"PUT", "POST"}
                 => \A old \in table : \A new \in table' :
                      ("Children" \in DOMAIN old /\ new["ID"] = old["ID"])
                        => new["Children"] = old["Children"]]_vars

\* C23 (as stated): the keyed template is the zero entity with the key field
\* set to the value the key string denotes in the kind of the key field (any
\* string for a string key, a numeral for a signed key, a numeral without
\* sign for an unsigned key), and an error for every other string.
C23_KeyedTemplate ==
    conv.phase = "keyed"
      => LET dMap == buildDtoMap(conv.tName, conv.dName)
             kind == LeafOf(dMap.tT, dMap.objKey).type
             n == Atoi(conv.key)
         IN  IF \/ kind = "string"
                \/ kind = "int" /\ ~n.err
                \/ kind = "uint" /\ ~n.err /\ n.k >= 0 /\ conv.key # "-0"
             THEN /\ ~conv.out.err
                  /\ conv.out.item = Set(emptyT(dMap.tT), dMap.objKey,
                                         IF kind = "string" THEN conv.key ELSE n.k)
             ELSE conv.out.err

\* C24 (as stated): a storage type with the key tag on more than one field
\* cannot be registered, so no keyed template is ever built for it.
C24_OneKeyField ==
    (conv.phase = "keyed" /\ Cardinality(KeyFields(conv.tName)) > 1)
      => buildDtoMap(conv.tName, conv.dName).panic

\* C25: a request the validator denies invokes no Create, Mutate or Delete
\* callback and leaves the database as it was.
C25_DeniedChangesNothing ==
    [][(req.method = "" /\ InFlight(req') /\ Refused(req'))
         => /\ ~Called(calls', "Create") /\ ~Called(calls', "Mutate")
            /\ ~Called(calls', "Delete")
            /\ <<table, seq, now>>' = <<table, seq, now>>]_vars

\* C25 witness: the DELETE of a stored entity was denied after the entity
\* had been found, and the entity is still there.
C25_DeleteDenied ==
    /\ req.method = "DELETE" /\ Handled(req) /\ Refused(req)
    /\ calls = <<"Find", "Validator">>
    /\ resp = SendStatus(StatusUnauthorized)
    /\ Addressed(ApiOf(req).dMap, table, req.id) # {}

\* C26 (as stated): the handler a request reaches has the callback it
\* calls, and no handler panics on a nil callback.
C26_RoutesHaveCallbacks ==
    Handled(req)
      => /\ Handler(req) = "createOne" => ApiOf(req).Create
         /\ Handler(req) = "mutateOne" => ApiOf(req).Mutate
         /\ Handler(req) = "deleteOne" => ApiOf(req).Delete
         /\ up

\* C27 (as stated): after a PUT /:id answered 200 the entity that was
\* located has a successor with key :id, and every other row is as it was.
C27_PutKeepsKey ==
    [][PutSucceeds
         => \E f \in finder(ApiOf(req').dMap, table, req'.id) :
              /\ f.ok
              /\ \E row \in table' :
                   /\ KeyText(ApiOf(req').dMap, row) = req'.id
                   /\ table' \ {row} = table \ {f.item}]_vars

\* C28 (as stated): whatever the finder reports as found for the path key
\* of a request has that key.
C28_FoundHasKey ==
    [][(req.method = "" /\ InFlight(req') /\ Registered(req')
          /\ req'.path \in {"/:id", "/:id/sub"})
         => \A f \in finder(ApiOf(req').dMap, table, req'.id) :
              f.ok => KeyText(ApiOf(req').dMap, f.item) = req'.id]_vars

\* C29 (as stated): when the entity a PUT found is no longer stored at the
\* time the PUT saves (a DELETE was served in between), it is not stored
\* after the save either.
C29_PutNeverRecreates ==
    [][(conv.phase = "found" /\ conv'.phase = "done"
          /\ \A row \in table :
               Live(TypeOf(storage), row)
                 => row[PrimaryField(TypeOf(storage))]
                      # conv.e[PrimaryField(TypeOf(storage))])
         => \A row \in table' :
              Live(TypeOf(storage), row)
                => row[PrimaryField(TypeOf(storage))]
                     # conv.e[PrimaryField(TypeOf(storage))]]_vars

\* C30 (as stated): the save of a PUT leaves every storage-only field of
\* the entity, other than the update time, at the value stored at the time
\* of the save, whatever the PUT had found earlier.
C30_PutWritesOwnFieldsOnly ==
    [][(conv.phase = "found" /\ conv'.phase = "done" /\ resp'.code = StatusOK)
         => \A row \in table :
              row[PrimaryField(TypeOf(storage))] = conv.e[PrimaryField(TypeOf(storage))]
                => Kept(TypeOf(storage), table', row,
                        StorageOnly(dMapOf(conv.tName, conv.dName)) \ {"UpdatedAt"})]_vars

====
